---- MODULE Spec2Model ----
(***************************************************************************)
(* Model of the document factorisation pipeline of DataVisualiser:        *)
(* DocumentFactory.create_object and the recipes, documents and data      *)
(* frames it works on (Visualiser/modules/common, charts, maps), of the   *)
(* layer of a form on its way to its data, of the activation of a         *)
(* document controller with the file service it reads files with, and of  *)
(* the default objects of the documents.                                  *)
(***************************************************************************)
EXTENDS Integers, Sequences, FiniteSets, TLC

VARIABLES
    factory,              \* class of the factory instance: ChartFactory or MapFactory
    post_creation_tasks,  \* self._post_creation_tasks of the factory instance
    pc,                   \* position of the running create_object call
    document,             \* the Document passed to create_object (as it is now)
    document0,            \* the same Document as it was when create_object was called
    created_object,       \* the canvas: the elements recipes have put on it
    i,                    \* index of the next layer of the for loop of create_object
    j,                    \* index of the next task of the for loop of __post_create
    returned,             \* create_object has returned created_object to its caller
    raised,               \* class of the exception that left create_object
    raised_in,            \* the step of create_object the exception came from
    calls,                \* the recipe.execute calls of this create_object call
    lookups,              \* number of _get_recipe calls of this create_object call
    filter_calls,         \* number of DataFrameService.filter calls of this call
    layer_documents,      \* the LayerDocuments prepared by this create_object call
    tasks0,               \* _post_creation_tasks when create_object was called
    invocations,          \* number of create_object calls made on the factory
    layer_form,           \* the layer form dictionary handed to FormHandler.map_filters
    table,                \* the data frame the layer of the form is drawn from
    form_pc,              \* position of the layer of the form on its way to its data
    expressions,          \* the results of the map_filter calls of map_filters
    layer_filter,         \* layer.filter_expression: what map_filters returned
    layer_data_source,    \* the rows prepare_layer_data_source returned for the layer
    invalid_columns,      \* the coordinates InvalidCoordinatesError was raised with
    form_raised,          \* class of the exception the layer of the form ended with
    form_raised_in,       \* the step that exception came from
    session,              \* the Columns item of the flask session of the client
    session0,             \* the same item as it was when activate was called
    request,              \* the request the controller is activated for
    ctrl_pc,              \* position of the running activate call
    form_layers,          \* self.form.layers of the controller: the layer entries
    events,               \* the calls activate has made so far, in order
    response,             \* what activate returned to the blueprint
    notified,             \* the error the user was notified of
    ctrl_raised,          \* class of the exception raised inside the try of activate
    propagated,           \* class of the exception that left activate
    file_name,            \* data_source.file_name handed to the FileService
    file_handler,         \* class of the file handler __create_file_handler returned
    frame_columns,        \* the column names of the data frame after ingestion
    instances,            \* the Document / MapLayerDocument instances constructed
    heap,                 \* the DataSource and Axis objects: the field set on each
    allocated             \* number of DataSource and Axis objects allocated

\* the layer of a form: FormHandler and what is done with its result
form_vars ==
    <<layer_form, table, form_pc, expressions, layer_filter, layer_data_source,
      invalid_columns, form_raised, form_raised_in>>

\* the activation of a controller, the file service and the session it works on
ctrl_vars ==
    <<session, session0, request, ctrl_pc, form_layers, events, response, notified,
      ctrl_raised, propagated, file_name, file_handler, frame_columns>>

\* the documents constructed and the objects they refer to
model_vars ==
    <<instances, heap, allocated>>

web_vars ==
    <<ctrl_vars, model_vars>>

vars ==
    <<factory, post_creation_tasks, pc, document, document0, created_object, i, j,
      returned, raised, raised_in, calls, lookups, filter_calls, layer_documents,
      tasks0, invocations, form_vars, web_vars>>

----------------------------------------------------------------------------
(* Bounds of the model *)

MaxLayers ==
    2

MaxInvocations ==
    2

\* documents constructed in one run of the document model
MaxInstances ==
    3

\* entries of the layer list of a form
MaxEntries ==
    3

----------------------------------------------------------------------------
(* Data model *)

\* Python's None for a recipe attribute / a filter expression
None ==
    "None"

\* the attribute is not defined on the class: reading it raises AttributeError
Absent ==
    "<absent>"

\* a Python string of the filter machinery is the sequence of its tokens:
\* "age >= 18.0" is <<"age", ">=", "18.0">>

\* FilterExpression(expression1, expression2, operator); kind "None" is the
\* null filter (Python's None in place of a FilterExpression)
NoFilter ==
    [kind |-> "None", a |-> <<>>, operator |-> "", b |-> <<>>]

FilterExpression(expression1, expression2, operator) ==
    [kind |-> "FilterExpression", a |-> expression1, operator |-> operator,
     b |-> expression2]

\* FilterExpression.__str__: "{0} {1} {2}".format(str(a), operator, str(b))
FilterStr(filter_expression) ==
    filter_expression.a \o <<filter_expression.operator>> \o filter_expression.b

\* a missing value of a column (NaN)
NaN ==
    -1

\* pandas data frames bound to documents: columns, their dtypes and the rows
Rows ==
    <<[age |-> 10, lat |-> 1, lon |-> 1],
      [age |-> 20, lat |-> 2, lon |-> 2],
      [age |-> 70, lat |-> 3, lon |-> 3]>>

NumericFrame ==
    [dtypes |-> [age |-> "int64", lat |-> "float64", lon |-> "float64"], rows |-> Rows]

ObjectFrame ==
    [dtypes |-> [age |-> "int64", lat |-> "object", lon |-> "float64"], rows |-> Rows]

DataFrames ==
    {NumericFrame, ObjectFrame}

Columns(data_frame) ==
    DOMAIN data_frame.dtypes

\* comparison operators the query engine understands
Conditions ==
    {"==", "!=", "<=", ">=", "<", ">"}

\* a comparison of two numbers; a missing value compares unequal to everything
Compare(x, operator, y) ==
    IF x = NaN
    THEN operator = "!="
    ELSE CASE operator = "==" -> x = y
           [] operator = "!=" -> x # y
           [] operator = "<=" -> x <= y
           [] operator = ">=" -> x >= y
           [] operator = "<"  -> x < y
           [] operator = ">"  -> x > y

\* the number a float literal of a query denotes
Literals ==
    ("18.0" :> 18) @@ ("65.0" :> 65)

\* the query engine on `column operator literal`: one truth value per row
Comparison(data_frame, tokens) ==
    IF tokens[2] \notin Conditions
    THEN [ok |-> FALSE, mask |-> <<>>, error |-> "SyntaxError"]
    ELSE IF tokens[1] \notin Columns(data_frame)
    THEN [ok |-> FALSE, mask |-> <<>>, error |-> "UndefinedVariableError"]
    ELSE IF tokens[3] \in DOMAIN Literals
    THEN [ok |-> TRUE,
          mask |-> [k \in 1..Len(data_frame.rows) |->
                        Compare(data_frame.rows[k][tokens[1]], tokens[2], Literals[tokens[3]])],
          error |-> "none"]
    ELSE IF tokens[2] \in {"==", "!="}
    THEN [ok |-> TRUE,
          mask |-> [k \in 1..Len(data_frame.rows) |-> tokens[2] = "!="],
          error |-> "none"]
    ELSE [ok |-> FALSE, mask |-> <<>>, error |-> "TypeError"]

\* the query engine on a whole query: a comparison, `~ ( query )`,
\* `( comparison ) & ( comparison )` or `comparison & comparison` (| likewise);
\* anything else does not parse
RECURSIVE Evaluate(_, _)
Evaluate(data_frame, tokens) ==
    LET n == Len(tokens) IN
    IF n = 3
    THEN Comparison(data_frame, tokens)
    ELSE IF n > 3 /\ tokens[1] = "~" /\ tokens[2] = "(" /\ tokens[n] = ")"
    THEN LET e == Evaluate(data_frame, SubSeq(tokens, 3, n - 1))
         IN  IF e.ok
             THEN [e EXCEPT !.mask = [k \in 1..Len(e.mask) |-> ~e.mask[k]]]
             ELSE e
    ELSE IF /\ n = 11
            /\ tokens[1] = "(" /\ tokens[5] = ")"
            /\ tokens[6] \in {"&", "|"}
            /\ tokens[7] = "(" /\ tokens[11] = ")"
    THEN LET l == Comparison(data_frame, SubSeq(tokens, 2, 4))
             r == Comparison(data_frame, SubSeq(tokens, 8, 10))
         IN  IF ~l.ok THEN l
             ELSE IF ~r.ok THEN r
             ELSE [ok |-> TRUE,
                   mask |-> [k \in 1..Len(l.mask) |->
                                IF tokens[6] = "&"
                                THEN l.mask[k] /\ r.mask[k]
                                ELSE l.mask[k] \/ r.mask[k]],
                   error |-> "none"]
    ELSE IF n = 7 /\ tokens[4] \in {"&", "|"}
    THEN Evaluate(data_frame,
                  <<"(">> \o SubSeq(tokens, 1, 3) \o <<")", tokens[4], "(">> \o
                  SubSeq(tokens, 5, 7) \o <<")">>)
    ELSE [ok |-> FALSE, mask |-> <<>>, error |-> "SyntaxError"]

\* the rows of a frame a mask selects, in the order of the frame
RECURSIVE Select(_, _)
Select(rows, mask) ==
    IF rows = <<>>
    THEN <<>>
    ELSE (IF Head(mask) THEN <<Head(rows)>> ELSE <<>>) \o Select(Tail(rows), Tail(mask))

\* DataFrame.query(query): the rows satisfying the predicate, in order; an
\* unknown column or a query the engine cannot parse or evaluate raises
Query(data_frame, query) ==
    LET e == Evaluate(data_frame, query)
    IN  [ok |-> e.ok,
         rows |-> IF e.ok THEN Select(data_frame.rows, e.mask) ELSE <<>>,
         error |-> e.error]

\* filter with the predicate negated
filter_negated(data_frame, filter_expression) ==
    Query(data_frame, <<"~", "(">> \o FilterStr(filter_expression) \o <<")">>)

\* DataFrameService.filter
filter(data_frame, filter_expression) ==
    Query(data_frame, FilterStr(filter_expression))

\* DataFrameService.get_invalid_columns: the columns of columns_list whose
\* values are not numbers
get_invalid_columns(columns_list, data_frame) ==
    {columns_list[k].data_field : k \in
        {n \in 1..Len(columns_list) :
            data_frame.dtypes[columns_list[n].data_field] \notin {"int64", "float64"}}}

\* Axis
Axis(data_field, name) ==
    [data_field |-> data_field, name |-> name]

\* Layer: axis, figure (its object_key) and filter_expression
Layer(axis, object_key, filter_expression) ==
    [axis |-> axis, figure |-> [object_key |-> object_key],
     filter_expression |-> filter_expression]

\* names of the ObjectKey members layers are given
LayerKeys ==
    {"Line", "Circle", "Triangle"}

\* layer_name of the form: empty or a label
AxisNames ==
    {"", "AGE"}

Filters ==
    {NoFilter, FilterExpression(<<"age">>, <<"18.0">>, ">="),
     FilterExpression(<<"height">>, <<"18.0">>, ">=")}

\* the layers documents are made of: every key without a label, Line with a
\* label too, and the filters on Circle, the key both recipe sets know
Layers ==
    {l \in {Layer(Axis("age", name), key, f) :
                name \in AxisNames, key \in LayerKeys, f \in Filters} :
        \/ l.filter_expression = NoFilter /\ (l.axis.name = "" \/ l.figure.object_key = "Line")
        \/ l.figure.object_key = "Circle" /\ l.axis.name = ""}

LayerLists ==
    UNION {[1..n -> Layers] : n \in 0..MaxLayers}

\* Chart / MapDocument: object_key fixed by the class, model (layers, latitude,
\* longtitude, x_axis) and data_source
Document(object_key, layers, data_frame) ==
    [object_key |-> object_key,
     model |-> [layers |-> layers,
                x_axis |-> Axis("age", ""),
                latitude |-> Axis("lat", ""),
                longtitude |-> Axis("lon", "")],
     data_source |-> data_frame]

ChartObjectKey ==
    "Chart"

MapObjectKey ==
    "Map"

\* a chart without layers whose x_axis names no column of its data frame
MissingAxisChart ==
    [Document(ChartObjectKey, <<>>, NumericFrame) EXCEPT !.model.x_axis = Axis("height", "")]

\* the documents a factory of the given class is handed by its callers
Documents(factory_class) ==
    {Document(IF factory_class = "ChartFactory" THEN ChartObjectKey ELSE MapObjectKey, ls, df) :
        ls \in LayerLists, df \in DataFrames}
    \cup (IF factory_class = "ChartFactory" THEN {MissingAxisChart} ELSE {})

----------------------------------------------------------------------------
(* Recipes *)

\* enum ChartRecipes: member name -> recipe class
ChartRecipes ==
    [Chart |-> "ChartRecipe", Line |-> "LineRecipe", Circle |-> "CircleRecipe",
     Square |-> "SquareRecipe"]

\* enum MapRecipes: member name -> recipe class
MapRecipes ==
    [Map |-> "MapRecipe", Circle |-> "CircleMarkerRecipe", Marker |-> "MarkerRecipe",
     RectangleMarker |-> "RectangleMarkerRecipe", TriangleMarker |-> "TriangleMarkerRecipe",
     Hexagon |-> "PolygonMarkerRecipe"]

\* self._recipes of a factory of the given class
Recipes(factory_class) ==
    IF factory_class = "ChartFactory" THEN ChartRecipes ELSE MapRecipes

\* the post_execute attribute of a recipe class: only ChartRecipe and MapRecipe
\* define it; Recipe, DocumentRecipe and the layer recipes do not
post_execute(recipe) ==
    CASE recipe = "ChartRecipe" -> "HoverToolRecipe"
      [] recipe = "MapRecipe" -> "LayerControlRecipe"
      [] OTHER -> Absent

\* Factory._get_recipe: self._recipes[object_key.name].value; a name that is
\* no member of the enum raises KeyError
_get_recipe(recipes, object_key) ==
    IF object_key \in DOMAIN recipes
    THEN [ok |-> TRUE, recipe |-> recipes[object_key], error |-> "none"]
    ELSE [ok |-> FALSE, recipe |-> None, error |-> "KeyError"]

\* LineRecipe / CircleRecipe / SquareRecipe._add_layer:
\* axis.name = axis.name or axis.data_field; the marker recipes of maps only
\* read the axis
add_layer(recipe, layer) ==
    IF recipe \in {"LineRecipe", "CircleRecipe", "SquareRecipe"}
    THEN [layer EXCEPT !.axis.name =
            IF layer.axis.name # "" THEN layer.axis.name ELSE layer.axis.data_field]
    ELSE layer

----------------------------------------------------------------------------
(* DocumentFactory *)

\* DocumentFactory.prepare_layer_data_source
\* prepare_layer_data_source with the test on filter_expression inverted
prepare_layer_data_source_inverted(data_frame, filter_expression) ==
    IF filter_expression = NoFilter
    THEN LET df == filter(data_frame, filter_expression)
         IN  [ok |-> df.ok, rows |-> df.rows, error |-> df.error, filtered |-> TRUE]
    ELSE [ok |-> TRUE, rows |-> data_frame.rows, error |-> "none", filtered |-> FALSE]

\* (filtered: DataFrameService.filter was called)
prepare_layer_data_source(data_frame, filter_expression) ==
    IF filter_expression # NoFilter
    THEN LET df == filter(data_frame, filter_expression)
         IN  [ok |-> df.ok, rows |-> df.rows, error |-> df.error, filtered |-> TRUE]
    ELSE [ok |-> TRUE, rows |-> data_frame.rows, error |-> "none", filtered |-> FALSE]

\* validate with the longitude left out of the columns that are checked
validate_latitude_only(factory_class, doc) ==
    IF factory_class = "MapFactory"
    THEN get_invalid_columns(<<doc.model.latitude>>, doc.data_source)
    ELSE {}

\* ChartFactory.validate / MapFactory.validate: the invalid columns
\* InvalidCoordinatesError is raised for
validate(factory_class, doc) ==
    IF factory_class = "MapFactory"
    THEN get_invalid_columns(<<doc.model.latitude, doc.model.longtitude>>, doc.data_source)
    ELSE {}

\* Raise with the exception swallowed and the canvas built so far returned
Raise_returning(error, step) ==
    /\ pc' = "done"
    /\ raised' = error
    /\ raised_in' = step
    /\ returned' = TRUE

\* an exception leaves create_object: nothing is returned
Raise(error, step) ==
    /\ pc' = "failed"
    /\ raised' = error
    /\ raised_in' = step
    /\ returned' = FALSE

NoRaise ==
    UNCHANGED <<raised, raised_in, returned>>

\* a recipe.execute call as the recipe sees it
Call(phase, recipe, index, model, rows, ok) ==
    [phase |-> phase, recipe |-> recipe, index |-> index, model |-> model,
     rows |-> rows, ok |-> ok]

NoLayer ==
    Layer(Axis("", ""), None, NoFilter)

\* an element a recipe has put on the canvas
Element(recipe, index) ==
    [recipe |-> recipe, index |-> index]

\* a factory as DocumentFactory.__init__ leaves it, no create_object call made
FactoryInit ==
    /\ factory \in {"ChartFactory", "MapFactory"}
    /\ post_creation_tasks = <<>>
    /\ pc = "idle"
    /\ document = Document(IF factory = "ChartFactory" THEN ChartObjectKey ELSE MapObjectKey,
                           <<>>, NumericFrame)
    /\ document0 = document
    /\ created_object = <<>>
    /\ i = 0
    /\ j = 0
    /\ returned = FALSE
    /\ raised = "none"
    /\ raised_in = "none"
    /\ calls = <<>>
    /\ lookups = 0
    /\ filter_calls = 0
    /\ layer_documents = <<>>
    /\ tasks0 = <<>>
    /\ invocations = 0

\* no layer form is being handled
FormIdle ==
    /\ layer_form = [data_field |-> "", operator |-> "", filter_expressions |-> <<>>]
    /\ table = NumericFrame
    /\ form_pc = "idle"
    /\ expressions = <<>>
    /\ layer_filter = NoFilter
    /\ layer_data_source = <<>>
    /\ invalid_columns = {}
    /\ form_raised = "none"
    /\ form_raised_in = "none"

\* the three default objects python allocates once, when the classes are defined:
\* Document._data_source and the latitude / longtitude defaults of MapLayerDocument
DefaultDataSource ==
    0

DefaultLatitude ==
    1

DefaultLongtitude ==
    2

\* the object identifiers of the document model
Objects ==
    0 .. (2 + 3 * MaxInstances)

\* no document has been constructed: only the three default objects exist, every
\* field of them None as DataSource.__init__ and Axis.__init__ leave it
ModelIdle ==
    /\ instances = <<>>
    /\ heap = [o \in Objects |-> "None"]
    /\ allocated = 3

\* no controller is being activated
ControllerIdle ==
    /\ session = [stored |-> FALSE, columns |-> <<>>]
    /\ session0 = session
    /\ request = [controller |-> "", is_empty |-> TRUE, pressed |-> {},
                  is_valid |-> FALSE, layers |-> <<>>]
    /\ ctrl_pc = "idle"
    /\ form_layers = <<>>
    /\ events = <<>>
    /\ response = [kind |-> "none", state |-> "", code |-> 0]
    /\ notified = [type |-> "none", error |-> "", solution |-> ""]
    /\ ctrl_raised = "none"
    /\ propagated = "none"
    /\ file_name = <<>>
    /\ file_handler = "none"
    /\ frame_columns = <<>>

Init ==
    /\ FactoryInit
    /\ FormIdle
    /\ ControllerIdle
    /\ ModelIdle

\* a caller calls factory.create_object(document)
create_object ==
    /\ pc \in {"idle", "done", "failed"}
    /\ invocations < MaxInvocations
    /\ \E doc \in Documents(factory) :
        /\ document' = doc
        /\ document0' = doc
    /\ pc' = "validating"
    /\ created_object' = <<>>
    /\ i' = 0
    /\ j' = 0
    /\ returned' = FALSE
    /\ raised' = "none"
    /\ raised_in' = "none"
    /\ calls' = <<>>
    /\ lookups' = 0
    /\ filter_calls' = 0
    /\ layer_documents' = <<>>
    /\ tasks0' = post_creation_tasks
    /\ invocations' = invocations + 1
    /\ UNCHANGED <<factory, post_creation_tasks>>
    /\ UNCHANGED <<form_vars, web_vars>>

\* Validate with the outcome of validate ignored
Validate_ignored ==
    /\ pc = "validating"
    /\ pc' = "base"
    /\ NoRaise
    /\ UNCHANGED <<factory, post_creation_tasks, document, document0, created_object, i, j,
                   calls, lookups, filter_calls, layer_documents, tasks0, invocations>>
    /\ UNCHANGED <<form_vars, web_vars>>

\* create_object: self.validate(document=document)
Validate ==
    /\ pc = "validating"
    /\ IF validate(factory, document) # {}
       THEN Raise("InvalidCoordinatesError", "validate")
       ELSE pc' = "base" /\ NoRaise
    /\ UNCHANGED <<factory, post_creation_tasks, document, document0, created_object, i, j,
                   calls, lookups, filter_calls, layer_documents, tasks0, invocations>>
    /\ UNCHANGED <<form_vars, web_vars>>

\* post_create_effect with the hover tool added whatever the tooltips are
post_create_effect_always(recipe, doc, base_object, index) ==
    Append(base_object, Element(recipe, index))

\* HoverToolRecipe.create / LayerControlRecipe.create on the canvas: the hover
\* tool is added only when the layers give at least one tooltip
post_create_effect(recipe, doc, base_object, index) ==
    IF recipe = "HoverToolRecipe" /\ Len(doc.model.layers) = 0
    THEN base_object
    ELSE Append(base_object, Element(recipe, index))

\* DocumentFactory.build: look the recipe up, execute it (the plotting backend
\* may raise), queue its post_execute
build(phase, object_key, index, model, rows, next_pc) ==
    LET r == _get_recipe(Recipes(factory), object_key) IN
    /\ lookups' = lookups + 1
    /\ IF ~r.ok
       THEN /\ Raise(r.error, "lookup")
            /\ UNCHANGED <<calls, created_object, post_creation_tasks, document>>
       ELSE \E ok \in BOOLEAN :
            /\ calls' = Append(calls, Call(phase, r.recipe, index, model, rows, ok))
            /\ document' = IF phase = "layer"
                           THEN [document EXCEPT !.model.layers[index] = add_layer(r.recipe, @)]
                           ELSE document
            /\ IF ~ok
               THEN /\ Raise("BackendError", "recipe")
                    /\ UNCHANGED <<created_object, post_creation_tasks>>
               ELSE /\ created_object' = Append(created_object, Element(r.recipe, index))
                    /\ IF post_execute(r.recipe) = Absent
                       THEN /\ Raise("AttributeError", "post_execute")
                            /\ UNCHANGED post_creation_tasks
                       ELSE /\ post_creation_tasks' =
                                  IF post_execute(r.recipe) # None
                                  THEN Append(post_creation_tasks, post_execute(r.recipe))
                                  ELSE post_creation_tasks
                            /\ pc' = next_pc
                            /\ NoRaise

\* BuildBase with the loop over the layers skipped
BuildBase_skipping ==
    /\ pc = "base"
    /\ build("base", document.object_key, 0, NoLayer, <<>>,
             "post")
    /\ i' = 1
    /\ j' = 1
    /\ UNCHANGED <<factory, document0, filter_calls, layer_documents, tasks0, invocations>>
    /\ UNCHANGED <<form_vars, web_vars>>

\* create_object: created_object = self.build(document=document)
BuildBase ==
    /\ pc = "base"
    /\ build("base", document.object_key, 0, NoLayer, <<>>,
             IF Len(document.model.layers) = 0 THEN "post" ELSE "layers")
    /\ i' = 1
    /\ j' = 1
    /\ UNCHANGED <<factory, document0, filter_calls, layer_documents, tasks0, invocations>>
    /\ UNCHANGED <<form_vars, web_vars>>

\* LayerDocument(layer, data_source, ...): object_key is layer.figure.object_key
LayerDocument(layer, rows, filtered) ==
    [model |-> layer, data_source |-> rows, object_key |-> layer.figure.object_key,
     filtered |-> filtered]

\* create_object, one turn of the loop over document.model.layers:
\* prepare_layer_document, then build on the canvas
BuildLayer ==
    /\ pc = "layers"
    /\ LET layer == document.model.layers[i]
           source == prepare_layer_data_source(document.data_source, layer.filter_expression)
       IN  /\ filter_calls' = filter_calls + (IF source.filtered THEN 1 ELSE 0)
           /\ IF ~source.ok
              THEN /\ Raise(source.error, "filter")
                   /\ UNCHANGED <<layer_documents, lookups, calls, created_object,
                                  post_creation_tasks, document>>
              ELSE /\ layer_documents' =
                         Append(layer_documents, LayerDocument(layer, source.rows, source.filtered))
                   /\ build("layer", layer.figure.object_key, i, layer, source.rows,
                            IF i = Len(document.model.layers) THEN "post" ELSE "layers")
    /\ i' = i + 1
    /\ UNCHANGED <<factory, document0, j, tasks0, invocations>>
    /\ UNCHANGED <<form_vars, web_vars>>

\* PostCreate with the tasks run as soon as they are queued, inside the loop
\* over the layers
PostCreate_eager ==
    /\ pc \in {"layers", "post"}
    /\ j <= Len(post_creation_tasks)
    /\ \E ok \in BOOLEAN :
        /\ calls' = Append(calls, Call("post", post_creation_tasks[j], j, NoLayer, <<>>, ok))
        /\ IF ok
           THEN /\ created_object' =
                      post_create_effect(post_creation_tasks[j], document, created_object, j)
                /\ j' = j + 1
                /\ pc' = pc
                /\ NoRaise
           ELSE /\ Raise("BackendError", "post")
                /\ UNCHANGED <<created_object, j>>
    /\ UNCHANGED <<factory, post_creation_tasks, document, document0, i, lookups, filter_calls,
                   layer_documents, tasks0, invocations>>
    /\ UNCHANGED <<form_vars, web_vars>>

\* __post_create, one turn of the loop over self._post_creation_tasks
PostCreate ==
    /\ pc = "post"
    /\ j <= Len(post_creation_tasks)
    /\ \E ok \in BOOLEAN :
        /\ calls' = Append(calls, Call("post", post_creation_tasks[j], j, NoLayer, <<>>, ok))
        /\ IF ok
           THEN /\ created_object' =
                      post_create_effect(post_creation_tasks[j], document, created_object, j)
                /\ j' = j + 1
                /\ pc' = "post"
                /\ NoRaise
           ELSE /\ Raise("BackendError", "post")
                /\ UNCHANGED <<created_object, j>>
    /\ UNCHANGED <<factory, post_creation_tasks, document, document0, i, lookups, filter_calls,
                   layer_documents, tasks0, invocations>>
    /\ UNCHANGED <<form_vars, web_vars>>

\* __post_create: return base_object, which create_object returns
Return ==
    /\ pc = "post"
    /\ j > Len(post_creation_tasks)
    /\ pc' = "done"
    /\ returned' = TRUE
    /\ UNCHANGED <<factory, post_creation_tasks, document, document0, created_object, i, j,
                   raised, raised_in, calls, lookups, filter_calls, layer_documents, tasks0,
                   invocations>>
    /\ UNCHANGED <<form_vars, web_vars>>

Next ==
    \/ create_object
    \/ Validate
    \/ BuildBase
    \/ BuildLayer
    \/ PostCreate
    \/ Return

Spec ==
    Init /\ [][Next]_vars

----------------------------------------------------------------------------
(* One layer from its form to its data: FormHandler.map_filters, the         *)
(* validation of the document of the layer, prepare_layer_data_source        *)

\* StringTools.is_empty
is_empty(string) ==
    string = "" \/ string = None

\* float(string) for the strings that are numbers, as str renders the float
Floats ==
    ("18" :> "18.0") @@ ("65" :> "65.0")

\* StringTools.to_float: float(string.replace(",", ".")); None has no replace
to_float(string) ==
    IF string = None
    THEN [ok |-> FALSE, value |-> "", error |-> "AttributeError"]
    ELSE IF string \in DOMAIN Floats
    THEN [ok |-> TRUE, value |-> Floats[string], error |-> "none"]
    ELSE [ok |-> FALSE, value |-> "", error |-> "ValueError"]

\* "'{0}'".format(string) for the strings that are no numbers
Quoted ==
    ("" :> "''")

\* StringTools.parse: the float, or on ValueError the quoted string
parse(string) ==
    LET f == to_float(string)
    IN  IF f.error = "ValueError"
        THEN [ok |-> TRUE, value |-> Quoted[string], error |-> "none"]
        ELSE f

\* FormHandler.map_filter
map_filter(filter_entry, data_field) ==
    IF ~(is_empty(filter_entry.value) /\ is_empty(filter_entry.operator))
    THEN LET value == parse(filter_entry.value)
         IN  IF value.ok
             THEN [ok |-> TRUE,
                   value |-> FilterExpression(<<data_field>>, <<value.value>>,
                                              filter_entry.operator),
                   error |-> "none"]
             ELSE [ok |-> FALSE, value |-> NoFilter, error |-> value.error]
    ELSE [ok |-> TRUE, value |-> NoFilter, error |-> "none"]

\* Format with the parentheses left out
Format_bare(expr) ==
    FilterStr(expr)

\* "({0})".format(expr)
Format(expr) ==
    <<"(">> \o FilterStr(expr) \o <<")">>

\* FormHandler.map_filters; done: the results of the map_filter calls made
map_filters(form) ==
    LET data_field == form.data_field
        operator == form.operator
        expr1 == map_filter(form.filter_expressions[1], data_field)
        expr2 == map_filter(form.filter_expressions[2], data_field)
    IN  IF ~expr1.ok
        THEN [ok |-> FALSE, value |-> NoFilter, error |-> expr1.error, done |-> <<>>]
        ELSE IF ~expr2.ok
        THEN [ok |-> FALSE, value |-> NoFilter, error |-> expr2.error,
              done |-> <<expr1.value>>]
        ELSE [ok |-> TRUE,
              value |-> IF expr1.value = NoFilter
                        THEN NoFilter
                        ELSE IF expr2.value = NoFilter
                        THEN expr1.value
                        ELSE FilterExpression(Format(expr1.value), Format(expr2.value),
                                              operator),
              error |-> "none",
              done |-> <<expr1.value, expr2.value>>]

\* what the value field of a filter form is submitted with
FormValues ==
    {None, "", "18", "65"}

\* what the operator field of a filter form is submitted with
FormConditions ==
    {None, ""} \cup Conditions

\* the values of the operator field of a layer form
Collocations ==
    {"&", "|"}

\* the data fields a layer form is submitted with: a column and no column
DataFields ==
    {"age", "height"}

FilterEntries ==
    [value : FormValues, operator : FormConditions]

LayerForms ==
    [data_field : DataFields, operator : Collocations,
     filter_expressions : [1..2 -> FilterEntries]]

\* frames with a missing value and with coordinates that are no numbers
MissingFrame ==
    [dtypes |-> [age |-> "float64", lat |-> "float64", lon |-> "float64"],
     rows |-> <<[age |-> 10, lat |-> 1, lon |-> 1],
                [age |-> NaN, lat |-> 2, lon |-> 2],
                [age |-> 70, lat |-> 3, lon |-> 3]>>]

ObjectLonFrame ==
    [dtypes |-> [age |-> "int64", lat |-> "float64", lon |-> "object"], rows |-> Rows]

ObjectBothFrame ==
    [dtypes |-> [age |-> "int64", lat |-> "object", lon |-> "object"], rows |-> Rows]

Tables ==
    DataFrames \cup {MissingFrame, ObjectLonFrame, ObjectBothFrame}

\* a layer form has been submitted for a document on one of the tables
LayerInit ==
    /\ FactoryInit
    /\ layer_form \in LayerForms
    /\ table \in Tables
    /\ form_pc = "form"
    /\ expressions = <<>>
    /\ layer_filter = NoFilter
    /\ layer_data_source = <<>>
    /\ invalid_columns = {}
    /\ form_raised = "none"
    /\ form_raised_in = "none"
    /\ ControllerIdle
    /\ ModelIdle

factory_vars ==
    <<factory, post_creation_tasks, pc, document, document0, created_object, i, j,
      returned, raised, raised_in, calls, lookups, filter_calls, layer_documents,
      tasks0, invocations>>

\* map_layer: layer.filter_expression = self.map_filters(layer_form=layer_form)
MapFilters ==
    /\ form_pc = "form"
    /\ LET m == map_filters(layer_form)
       IN  /\ expressions' = m.done
           /\ layer_filter' = m.value
           /\ IF m.ok
              THEN /\ form_pc' = "mapped"
                   /\ UNCHANGED <<form_raised, form_raised_in>>
              ELSE /\ form_pc' = "failed"
                   /\ form_raised' = m.error
                   /\ form_raised_in' = "map_filters"
    /\ UNCHANGED <<layer_form, table, layer_data_source, invalid_columns>>
    /\ UNCHANGED <<factory_vars, web_vars>>

\* create_object: self.validate(document), the document bound to the table
ValidateDocument ==
    /\ form_pc = "mapped"
    /\ LET coordinates ==
               validate(factory,
                        Document(IF factory = "ChartFactory"
                                 THEN ChartObjectKey ELSE MapObjectKey, <<>>, table))
       IN  /\ invalid_columns' = coordinates
           /\ IF coordinates # {}
              THEN /\ form_pc' = "failed"
                   /\ form_raised' = "InvalidCoordinatesError"
                   /\ form_raised_in' = "validate"
              ELSE /\ form_pc' = "validated"
                   /\ UNCHANGED <<form_raised, form_raised_in>>
    /\ UNCHANGED <<layer_form, table, expressions, layer_filter, layer_data_source>>
    /\ UNCHANGED <<factory_vars, web_vars>>

\* prepare_layer_document: self.prepare_layer_data_source(data_source, filter_expression)
PrepareLayerDataSource ==
    /\ form_pc = "validated"
    /\ LET source == prepare_layer_data_source(table, layer_filter)
       IN  /\ layer_data_source' = source.rows
           /\ IF source.ok
              THEN /\ form_pc' = "prepared"
                   /\ UNCHANGED <<form_raised, form_raised_in>>
              ELSE /\ form_pc' = "failed"
                   /\ form_raised' = source.error
                   /\ form_raised_in' = "filter"
    /\ UNCHANGED <<layer_form, table, expressions, layer_filter, invalid_columns>>
    /\ UNCHANGED <<factory_vars, web_vars>>

LayerNext ==
    \/ MapFilters
    \/ ValidateDocument
    \/ PrepareLayerDataSource

LayerSpec ==
    LayerInit /\ [][LayerNext]_vars

----------------------------------------------------------------------------
(* The FileService: the handler of a file by its name, the column names of   *)
(* the data frame read from it                                               *)

\* str.split(separator): the parts of the string between the separators; a python
\* string is the sequence of its pieces, the separator one of them
RECURSIVE split(_, _)
split(string, separator) ==
    IF \A k \in 1 .. Len(string) : string[k] # separator
    THEN <<string>>
    ELSE LET first == CHOOSE k \in 1 .. Len(string) :
                          /\ string[k] = separator
                          /\ \A l \in 1 .. (k - 1) : string[l] # separator
         IN  <<SubSeq(string, 1, first - 1)>>
                 \o split(SubSeq(string, first + 1, Len(string)), separator)

\* FileService.__get_file_type: file_name.split(".")[-1]; "csv" on IndexError only,
\* which a list that split returned (it has one element at least) never raises
__get_file_type(name) ==
    LET parts == split(name, ".")
    IN  IF Len(parts) = 0 THEN <<"csv">> ELSE parts[Len(parts)]

\* config.ALLOWED_EXTENSIONS
ALLOWED_EXTENSIONS ==
    {<<"txt">>, <<"csv">>, <<"dat">>, <<"json">>}

\* the FileHandlers enumeration: the handler class of each member
FileHandlers ==
    (<<"csv">> :> "CSV") @@ (<<"txt">> :> "CSV") @@ (<<"dat">> :> "CSV")
        @@ (<<"json">> :> "JSON")

\* FileService.__create_file_handler: TypeError for a type that is not allowed,
\* an instance of the handler class of the type otherwise
__create_file_handler(name) ==
    LET file_handler_type == __get_file_type(name)
    IN  IF file_handler_type \notin ALLOWED_EXTENSIONS
        THEN [ok |-> FALSE, error |-> "TypeError", handler |-> "none",
              type |-> file_handler_type]
        ELSE [ok |-> TRUE, error |-> "none",
              handler |-> FileHandlers[file_handler_type],
              type |-> file_handler_type]

\* a column name that is a python string, as the sequence of its characters
Str(chars) ==
    [is_str |-> TRUE, chars |-> chars, number |-> 0]

\* a column name that is a number (a file read without a header row)
Number(number) ==
    [is_str |-> FALSE, chars |-> <<>>, number |-> number]

\* str.replace(old, new), old and new one character each
replace(chars, old, new) ==
    [k \in 1 .. Len(chars) |-> IF chars[k] = old THEN new ELSE chars[k]]

\* StringTools.to_snake_case
to_snake_case(string) ==
    IF string.is_str
    THEN [string EXCEPT !.chars = replace(@, " ", "_")]
    ELSE string

\* DataFrameService.fix_column_names: cols.map(to_snake_case)
fix_column_names(cols) ==
    [k \in 1 .. Len(cols) |-> to_snake_case(cols[k])]

\* the characters of the column names of the model: a letter, the blank, the
\* tabulator and the underscore
Characters ==
    {"a", " ", "\t", "_"}

\* the characters python counts as whitespace (str.isspace) among them
Whitespace ==
    {" ", "\t"}

ColumnNames ==
    {Str(<<c>>) : c \in Characters}
        \cup {Str(<<c, d>>) : c \in Characters, d \in Characters}
        \cup {Number(0)}

\* the header rows of the files of the model
FileColumns ==
    {<<name>> : name \in ColumnNames} \cup {<<Str(<<"a", " ">>), Number(0)>>}

\* the names of the files of the model, after secure_filename
FileNames ==
    {<<"data", ".", "csv">>, <<"data", ".", "json">>, <<"data", ".", "exe">>,
     <<"data">>, <<"csv">>, <<"data", ".", "tar", ".", "txt">>}

----------------------------------------------------------------------------
(* The activation of a document controller: activate, prepare_form,          *)
(* form_action and the handlers it chooses from                              *)

Controllers ==
    {"ChartEditController", "MapEditController", "MapCreateController"}

EditControllers ==
    {"ChartEditController", "MapEditController"}

\* the submit buttons of DocumentBaseForm
Buttons ==
    {"submit_file", "submit_document", "add_layer", "cancel", "edit_document",
     "save_document"}

LayerNames ==
    <<"a", "b", "c", "d">>

\* an entry of form.layers: a LayerOptionsForm with its remove_layer button
LayerEntry(layer_name, flag) ==
    [layer_name |-> layer_name, remove_layer |-> flag]

\* the layer lists a request can carry: min_entries = 1
FormLayers ==
    UNION {{[k \in 1 .. n |-> LayerEntry(LayerNames[k], flags[k])] :
                flags \in [1 .. n -> BOOLEAN]} : n \in 1 .. MaxEntries}

\* the requests a controller is activated for: the is_empty argument of activate,
\* the buttons of the posted form (two at most), the result of its validation, its
\* layer entries
Requests ==
    {[controller |-> c, is_empty |-> e, pressed |-> p, is_valid |-> v, layers |-> l] :
        c \in Controllers, e \in BOOLEAN,
        p \in {b \in SUBSET Buttons : Cardinality(b) <= 2},
        v \in BOOLEAN, l \in FormLayers}

\* the session of the client: no columns stored, or the columns of an earlier upload
Sessions ==
    {[stored |-> FALSE, columns |-> <<>>],
     [stored |-> TRUE, columns |-> <<Str(<<"a">>)>>]}

\* get_item answering a key that is not there with an empty value
get_item_defaulting(store) ==
    [ok |-> TRUE, error |-> "none", value |-> store.columns]

\* SessionService.get_item: session[key], KeyError for a key that is not there
get_item(store) ==
    IF store.stored
    THEN [ok |-> TRUE, error |-> "none", value |-> store.columns]
    ELSE [ok |-> FALSE, error |-> "KeyError", value |-> <<>>]

\* RouterStateService.go / submit / render
go(state) ==
    [kind |-> "redirect", state |-> state, code |-> 302]

submit(state) ==
    [kind |-> "redirect", state |-> state, code |-> 307]

render(controller) ==
    [kind |-> "render", state |-> controller, code |-> 200]

NoResponse ==
    [kind |-> "none", state |-> "", code |-> 0]

\* a handler that returns None (on_document_saved)
NoneResponse ==
    [kind |-> "None", state |-> "", code |-> 0]

\* the errors of the application, with the error and solution they are built with
UnhandledError ==
    [type |-> "UnhandledError", error |-> "Unhandled error occurred",
     solution |-> ":("]

InvalidCoordinatesError ==
    [type |-> "InvalidCoordinatesError",
     error |-> "Map could not be created - Some of the coordinates you provided are not numbers",
     solution |-> "Please check if data you provided is correct."]

NoError ==
    [type |-> "none", error |-> "", solution |-> ""]

\* the exception classes of the model that derive from VisualiserError
VisualiserErrors ==
    {"InvalidCoordinatesError"}

\* next_state default of on_error_occurred of the class of the controller
default_error_state(controller) ==
    IF controller = "MapCreateController" THEN "maps.edit" ELSE ".edit"

\* activate without its 'except Exception' clause
activate_except_visualiser_only(controller, exception) ==
    IF exception \in VisualiserErrors
    THEN [response |-> go(default_error_state(controller)),
          notified |-> InvalidCoordinatesError, propagated |-> "none"]
    ELSE [response |-> NoResponse, notified |-> NoError, propagated |-> exception]

\* the two except clauses of activate, each ending in on_error_occurred: notify of
\* str(error), then go(next_state); InvalidCoordinatesError is the one
\* VisualiserError an activation raises
activate_except(controller, exception) ==
    IF exception \in VisualiserErrors
    THEN [response |-> go(default_error_state(controller)),
          notified |-> InvalidCoordinatesError, propagated |-> "none"]
    ELSE [response |-> go(".index"), notified |-> UnhandledError,
          propagated |-> "none"]

\* form_action looking at submit_document before submit_file and add_layer
form_action_submit_first(req) ==
    IF req.is_empty THEN "on_form_initialised"
    ELSE IF "submit_document" \in req.pressed THEN "on_form_submitted"
    ELSE IF "submit_file" \in req.pressed THEN "on_file_uploaded"
    ELSE IF "add_layer" \in req.pressed THEN "on_layer_submitted"
    ELSE IF "cancel" \in req.pressed THEN "on_document_disposed"
    ELSE IF "save_document" \in req.pressed THEN "on_document_saved"
    ELSE IF "edit_document" \in req.pressed THEN "on_document_edited"
    ELSE "on_layer_removed"

\* the if / elif chain of form_action: the handler it calls
form_action(req) ==
    IF req.is_empty THEN "on_form_initialised"
    ELSE IF "submit_file" \in req.pressed THEN "on_file_uploaded"
    ELSE IF "add_layer" \in req.pressed THEN "on_layer_submitted"
    ELSE IF "submit_document" \in req.pressed THEN "on_form_submitted"
    ELSE IF "cancel" \in req.pressed THEN "on_document_disposed"
    ELSE IF "save_document" \in req.pressed THEN "on_document_saved"
    ELSE IF "edit_document" \in req.pressed THEN "on_document_edited"
    ELSE "on_layer_removed"

\* the while loop of remove_layer: pop_entry until the list is empty, the entries
\* whose remove_layer button is not pressed collected in layer_list
RECURSIVE pop_entries(_, _)
pop_entries(layers, layer_list) ==
    IF Len(layers) = 0
    THEN layer_list
    ELSE LET layer_entry == layers[Len(layers)]
         IN  pop_entries(SubSeq(layers, 1, Len(layers) - 1),
                         IF ~ layer_entry.remove_layer
                         THEN Append(layer_list, layer_entry)
                         ELSE layer_list)

\* list.reverse()
reverse(list) ==
    [k \in 1 .. Len(list) |-> list[Len(list) + 1 - k]]

\* FieldList.append_entry(data): a new last entry holding the data
append_entry(layers, data) ==
    Append(layers, data)

RECURSIVE append_entries(_, _)
append_entries(layers, layer_list) ==
    IF Len(layer_list) = 0
    THEN layers
    ELSE append_entries(append_entry(layers, Head(layer_list)), Tail(layer_list))

\* remove_layer without layer_list.reverse()
remove_layer_unreversed(layers) ==
    append_entries(<<>>, pop_entries(layers, <<>>))

\* DocumentBaseForm.remove_layer
remove_layer(layers) ==
    append_entries(<<>>, reverse(pop_entries(layers, <<>>)))

\* on_form_submitted not looking at is_valid
on_form_submitted_always(controller, is_valid) ==
    submit(IF controller = "ChartEditController" THEN "charts.create" ELSE ".create")

\* on_form_submitted of the edit controllers
on_form_submitted(controller, is_valid) ==
    IF is_valid
    THEN submit(IF controller = "ChartEditController" THEN "charts.create"
                ELSE ".create")
    ELSE render(controller)

\* on_document_disposed of the class of the controller
on_document_disposed(controller) ==
    IF controller = "ChartEditController" THEN go("charts.index")
    ELSE IF controller = "MapEditController" THEN go(".index")
    ELSE go("index")

\* what FoliumService.generate_map ends with: a map, the error of MapFactory.validate,
\* or the AttributeError of build for a document with layers
LoadMapOutcomes ==
    {"ok", "InvalidCoordinatesError", "AttributeError"}

\* a blueprint calls controller.activate(is_empty) for a request
ControllerInit ==
    /\ FactoryInit
    /\ factory = "MapFactory"
    /\ FormIdle
    /\ ModelIdle
    /\ session \in Sessions
    /\ session0 = session
    /\ request \in Requests
    /\ ctrl_pc = "activate"
    /\ form_layers = <<>>
    /\ events = <<>>
    /\ response = NoResponse
    /\ notified = NoError
    /\ ctrl_raised = "none"
    /\ propagated = "none"
    /\ file_name = <<>>
    /\ file_handler = "none"
    /\ frame_columns = <<>>

\* the handler returns its response: activate returns it
Finish(result) ==
    /\ response' = result
    /\ ctrl_pc' = "done"
    /\ UNCHANGED <<notified, ctrl_raised, propagated>>

\* an exception is raised inside the try of activate
Except(exception) ==
    LET handled == activate_except(request.controller, exception)
    IN  /\ ctrl_raised' = exception
        /\ response' = handled.response
        /\ notified' = handled.notified
        /\ propagated' = handled.propagated
        /\ ctrl_pc' = "done"

\* activate: self._is_empty = is_empty; self.prepare_form(), which asks
\* _get_form_creator for the form handler, built on the columns of the session
PrepareForm ==
    /\ ctrl_pc = "activate"
    /\ events' = Append(events, "get_file_columns")
    /\ LET columns == get_item(session)
       IN  IF columns.ok
           THEN /\ form_layers' = request.layers
                /\ ctrl_pc' = "form_action"
                /\ UNCHANGED <<response, notified, ctrl_raised, propagated>>
           ELSE /\ Except(columns.error)
                /\ UNCHANGED form_layers
    /\ UNCHANGED <<session, session0, request, file_name, file_handler, frame_columns>>
    /\ UNCHANGED <<factory_vars, form_vars, model_vars>>

\* form_action calls on_form_initialised
OnFormInitialised ==
    /\ ctrl_pc = "form_action"
    /\ form_action(request) = "on_form_initialised"
    /\ events' = Append(events, "on_form_initialised")
    /\ Finish(render(request.controller))
    /\ UNCHANGED <<session, session0, request, form_layers, file_name, file_handler,
                   frame_columns>>
    /\ UNCHANGED <<factory_vars, form_vars, model_vars>>

\* form_action calls on_file_uploaded: map_data_source, file.save, read_columns of
\* the FileService, save_file_columns, prepare_form, upload_file, render
OnFileUploaded ==
    /\ ctrl_pc = "form_action"
    /\ form_action(request) = "on_file_uploaded"
    /\ \E has_file \in BOOLEAN, name \in FileNames, columns \in FileColumns :
           IF ~ has_file
           THEN /\ name = <<"data">>
                /\ columns = <<Number(0)>>
                /\ events' = events \o <<"on_file_uploaded", "get_file_columns",
                                         "map_data_source">>
                /\ Except("FileNotFoundError")
                /\ UNCHANGED <<session, file_name, file_handler, frame_columns>>
           ELSE LET created == __create_file_handler(name)
                IN  /\ file_name' = name
                    /\ IF ~ created.ok
                       THEN /\ events' = events \o <<"on_file_uploaded",
                                             "get_file_columns", "map_data_source",
                                             "file.save", "__create_file_handler">>
                            /\ Except(created.error)
                            /\ UNCHANGED <<session, file_handler, frame_columns>>
                       ELSE /\ events' = events \o <<"on_file_uploaded",
                                             "get_file_columns", "map_data_source",
                                             "file.save", "__create_file_handler",
                                             "read_columns", "save_file_columns",
                                             "get_file_columns", "upload_file">>
                            /\ file_handler' = created.handler
                            /\ frame_columns' = fix_column_names(columns)
                            /\ session' = [stored |-> TRUE,
                                           columns |-> fix_column_names(columns)]
                            /\ Finish(render(request.controller))
    /\ UNCHANGED <<session0, request, form_layers>>
    /\ UNCHANGED <<factory_vars, form_vars, model_vars>>

\* form_action calls on_layer_submitted: form.submit_layer appends an empty entry
OnLayerSubmitted ==
    /\ ctrl_pc = "form_action"
    /\ form_action(request) = "on_layer_submitted"
    /\ events' = Append(events, "on_layer_submitted")
    /\ form_layers' = append_entry(form_layers, LayerEntry("", FALSE))
    /\ Finish(render(request.controller))
    /\ UNCHANGED <<session, session0, request, file_name, file_handler, frame_columns>>
    /\ UNCHANGED <<factory_vars, form_vars, model_vars>>

\* form_action calls on_layer_removed: form.remove_layer, render
OnLayerRemoved ==
    /\ ctrl_pc = "form_action"
    /\ form_action(request) = "on_layer_removed"
    /\ events' = Append(events, "on_layer_removed")
    /\ form_layers' = remove_layer(form_layers)
    /\ Finish(render(request.controller))
    /\ UNCHANGED <<session, session0, request, file_name, file_handler, frame_columns>>
    /\ UNCHANGED <<factory_vars, form_vars, model_vars>>

\* form_action calls on_form_submitted(is_valid) of an edit controller
OnFormSubmittedEdit ==
    /\ ctrl_pc = "form_action"
    /\ form_action(request) = "on_form_submitted"
    /\ request.controller \in EditControllers
    /\ events' = Append(events, "on_form_submitted")
    /\ Finish(on_form_submitted(request.controller, request.is_valid))
    /\ UNCHANGED <<session, session0, request, form_layers, file_name, file_handler,
                   frame_columns>>
    /\ UNCHANGED <<factory_vars, form_vars, model_vars>>

\* form_action calls on_form_submitted of MapCreateController: the document is
\* mapped from the form, its file read by the FileService, the map generated
OnFormSubmittedCreate ==
    /\ ctrl_pc = "form_action"
    /\ form_action(request) = "on_form_submitted"
    /\ request.controller = "MapCreateController"
    /\ \E name \in FileNames, columns \in FileColumns, outcome \in LoadMapOutcomes :
           LET created == __create_file_handler(name)
               mapped == <<"on_form_submitted", "get_file_columns", "map_to_document",
                           "get_file_columns", "map_data_source",
                           "__create_file_handler">>
           IN  /\ file_name' = name
               /\ IF ~ created.ok
                  THEN /\ columns = <<Number(0)>>
                       /\ outcome = "ok"
                       /\ events' = events \o mapped
                       /\ Except(created.error)
                       /\ UNCHANGED <<file_handler, frame_columns>>
                  ELSE /\ file_handler' = created.handler
                       /\ frame_columns' = fix_column_names(columns)
                       /\ events' = events \o mapped \o <<"read_file", "generate_map">>
                       /\ IF outcome = "ok"
                          THEN Finish(render(request.controller))
                          ELSE Except(outcome)
    /\ UNCHANGED <<session, session0, request, form_layers>>
    /\ UNCHANGED <<factory_vars, form_vars, model_vars>>

\* form_action calls on_document_disposed
OnDocumentDisposed ==
    /\ ctrl_pc = "form_action"
    /\ form_action(request) = "on_document_disposed"
    /\ events' = Append(events, "on_document_disposed")
    /\ Finish(on_document_disposed(request.controller))
    /\ UNCHANGED <<session, session0, request, form_layers, file_name, file_handler,
                   frame_columns>>
    /\ UNCHANGED <<factory_vars, form_vars, model_vars>>

\* form_action calls on_document_saved, whose body is pass
OnDocumentSaved ==
    /\ ctrl_pc = "form_action"
    /\ form_action(request) = "on_document_saved"
    /\ events' = Append(events, "on_document_saved")
    /\ Finish(NoneResponse)
    /\ UNCHANGED <<session, session0, request, form_layers, file_name, file_handler,
                   frame_columns>>
    /\ UNCHANGED <<factory_vars, form_vars, model_vars>>

\* form_action calls on_document_edited: prepare_form and render, or the redirect
\* to the edit route from MapCreateController
OnDocumentEdited ==
    /\ ctrl_pc = "form_action"
    /\ form_action(request) = "on_document_edited"
    /\ IF request.controller = "MapCreateController"
       THEN /\ events' = Append(events, "on_document_edited")
            /\ Finish(submit(".edit"))
       ELSE /\ events' = events \o <<"on_document_edited", "get_file_columns">>
            /\ Finish(render(request.controller))
    /\ UNCHANGED <<session, session0, request, form_layers, file_name, file_handler,
                   frame_columns>>
    /\ UNCHANGED <<factory_vars, form_vars, model_vars>>

ControllerNext ==
    \/ PrepareForm
    \/ OnFormInitialised
    \/ OnFileUploaded
    \/ OnLayerSubmitted
    \/ OnLayerRemoved
    \/ OnFormSubmittedEdit
    \/ OnFormSubmittedCreate
    \/ OnDocumentDisposed
    \/ OnDocumentSaved
    \/ OnDocumentEdited

ControllerSpec ==
    ControllerInit /\ [][ControllerNext]_vars

----------------------------------------------------------------------------
(* The documents and the objects they hold by default: Document._data_source, *)
(* a class attribute, and the latitude / longtitude default arguments of      *)
(* MapLayerDocument.__init__                                                   *)

\* a document instance: the objects its data_source, latitude and longtitude
\* attributes refer to (-1: the attribute holds no such object)
Instance(class, data_source, latitude, longtitude) ==
    [class |-> class, data_source |-> data_source, latitude |-> latitude,
     longtitude |-> longtitude]

\* the values set on a field of a DataSource (file_name) or an Axis (data_field)
FieldValues ==
    {"data.csv", "lat"}

\* MapDocument(): __init__ assigns nothing, so data_source reads the class
\* attribute Document._data_source
NewMapDocument ==
    /\ Len(instances) < MaxInstances
    /\ instances' = Append(instances, Instance("MapDocument", DefaultDataSource, -1, -1))
    /\ UNCHANGED <<heap, allocated>>
    /\ UNCHANGED <<factory_vars, form_vars, ctrl_vars>>

\* MapLayerDocument(layer, data_source) without the axes: the default arguments,
\* evaluated once; with the axes: two Axis() objects of the caller
NewMapLayerDocument ==
    /\ Len(instances) < MaxInstances
    /\ \E explicit \in BOOLEAN :
           IF explicit
           THEN /\ instances' = Append(instances,
                                       Instance("MapLayerDocument", -1, allocated,
                                                allocated + 1))
                /\ allocated' = allocated + 2
           ELSE /\ instances' = Append(instances,
                                       Instance("MapLayerDocument", -1, DefaultLatitude,
                                                DefaultLongtitude))
                /\ UNCHANGED allocated
    /\ UNCHANGED heap
    /\ UNCHANGED <<factory_vars, form_vars, ctrl_vars>>

\* document.data_source = DataSource(): the setter binds a new object to the instance
SetDataSource ==
    /\ \E k \in 1 .. Len(instances) :
           /\ instances[k].class = "MapDocument"
           /\ instances[k].data_source = DefaultDataSource
           /\ instances' = [instances EXCEPT ![k].data_source = allocated]
           /\ allocated' = allocated + 1
    /\ UNCHANGED heap
    /\ UNCHANGED <<factory_vars, form_vars, ctrl_vars>>

\* document.data_source.file_name = value: a field of the object the instance holds
SetFileName ==
    /\ \E k \in 1 .. Len(instances), value \in FieldValues :
           /\ instances[k].class = "MapDocument"
           /\ heap[instances[k].data_source] = "None"
           /\ heap' = [heap EXCEPT ![instances[k].data_source] = value]
    /\ UNCHANGED <<instances, allocated>>
    /\ UNCHANGED <<factory_vars, form_vars, ctrl_vars>>

\* layer_document.latitude.data_field = value (or longtitude)
SetDataField ==
    /\ \E k \in 1 .. Len(instances), value \in FieldValues, axis \in BOOLEAN :
           LET object == IF axis THEN instances[k].latitude ELSE instances[k].longtitude
           IN  /\ instances[k].class = "MapLayerDocument"
               /\ heap[object] = "None"
               /\ heap' = [heap EXCEPT ![object] = value]
    /\ UNCHANGED <<instances, allocated>>
    /\ UNCHANGED <<factory_vars, form_vars, ctrl_vars>>

\* the classes are defined, no instance constructed
DocumentInit ==
    /\ FactoryInit
    /\ factory = "MapFactory"
    /\ FormIdle
    /\ ControllerIdle
    /\ ModelIdle

DocumentNext ==
    \/ NewMapDocument
    \/ NewMapLayerDocument
    \/ SetDataSource
    \/ SetFileName
    \/ SetDataField

DocumentSpec ==
    DocumentInit /\ [][DocumentNext]_vars

----------------------------------------------------------------------------
(* The properties *)

LayerCalls ==
    SelectSeq(calls, LAMBDA c : c.phase = "layer")

PostCalls ==
    SelectSeq(calls, LAMBDA c : c.phase = "post")

Terminated ==
    pc \in {"done", "failed"}

NumLayers ==
    Len(document0.model.layers)

Range(seq) ==
    {seq[k] : k \in 1..Len(seq)}

Registered(layer) ==
    layer.figure.object_key \in DOMAIN Recipes(factory)

\* the canvas after the base recipe and the recipes of layers 1..n
CanvasOfLayers(n) ==
    <<Element(Recipes(factory)[document0.object_key], 0)>> \o
    [k \in 1..n |-> Element(Recipes(factory)[document0.model.layers[k].figure.object_key], k)]

\* C1: when create_object ends without a validation, lookup, filter or backend
\* error, the layer recipes have been executed exactly once per entry of
\* document.model.layers, in list order, the k-th execution on layers[k], and
\* all of them after the base recipe.
C1_LayersBuiltOncePerEntryInOrder ==
    (Terminated /\ raised_in \notin {"validate", "lookup", "filter", "recipe"}) =>
        /\ Len(LayerCalls) = NumLayers
        /\ \A k \in 1..Len(LayerCalls) :
            /\ LayerCalls[k].index = k
            /\ LayerCalls[k].model = document0.model.layers[k]
        /\ calls # <<>> => calls[1].phase = "base"

C3_CompanionExecutedOnce ==
    /\ \A m, n \in (Len(tasks0) + 1)..Len(post_creation_tasks) :
        post_creation_tasks[m] = post_creation_tasks[n] => m = n
    /\ pc = "done" =>
        \A m, n \in 1..Len(PostCalls) : PostCalls[m].recipe = PostCalls[n].recipe => m = n

\* C4: when validate(document) fails, create_object looks up and executes no
\* recipe, prepares no layer document, evaluates no filter, queues and runs no
\* post-task and builds no canvas.
C4_NothingBuiltAfterFailedValidation ==
    (invocations > 0 /\ validate(factory, document0) # {}) =>
        /\ pc \in {"validating", "failed"}
        /\ lookups = 0
        /\ calls = <<>>
        /\ layer_documents = <<>>
        /\ filter_calls = 0
        /\ post_creation_tasks = tasks0
        /\ created_object = <<>>
        /\ ~returned

\* validation has failed and create_object has ended with its error
C4_Witness ==
    pc = "failed" /\ raised_in = "validate" /\ raised = "InvalidCoordinatesError"

\* C5: a recipe lookup for a key without a registered recipe fails with
\* UnknownRecipeError and with no other kind of error.
C5_LookupFailsWithUnknownRecipeError ==
    raised_in = "lookup" => raised = "UnknownRecipeError"

\* C6: when layer k is the first layer whose key has no registered recipe (and
\* nothing else went wrong before it), create_object ends with the lookup
\* error of layer k, no layer from k on has been executed, and the canvas holds
\* exactly the base and the layers before k.
C6_UnknownKeyKeepsPriorLayers ==
    \A k \in 1..NumLayers :
        ( /\ Terminated
          /\ ~Registered(document0.model.layers[k])
          /\ \A n \in 1..(k - 1) : Registered(document0.model.layers[n])
          /\ raised_in \notin {"validate", "filter", "recipe"} ) =>
            /\ raised_in = "lookup"
            /\ Len(LayerCalls) = k - 1
            /\ created_object = CanvasOfLayers(k - 1)

C8_FailuresSurfaceAsCreatorError ==
    ( \/ raised_in = "lookup"
      \/ raised_in \in {"recipe", "post_execute"} /\ calls[Len(calls)].phase = "layer" ) =>
        raised = "CreatorError"

\* C9: the Document passed to create_object (options, layers, axes and their
\* names, figures, filters, data frame) is at all times what it was when
\* create_object was called.
C9_InputDocumentUnchanged ==
    document = document0

----------------------------------------------------------------------------
(* The properties of create_object, continued *)

\* C16: a document whose x_axis (chart) names no column of its data frame is
\* rejected by the validation of create_object: no recipe is looked up or
\* executed for it, the base build is never reached.
C16_MissingColumnRejected ==
    ( /\ invocations > 0
      /\ document0.model.x_axis.data_field \notin Columns(document0.data_source) ) =>
        /\ pc \in {"validating", "failed"}
        /\ pc = "failed" => raised_in = "validate"
        /\ lookups = 0
        /\ calls = <<>>
        /\ created_object = <<>>

C18_PhasesInOrder ==
    [][ /\ pc' # pc =>
            \/ pc \in {"idle", "done", "failed"} /\ pc' = "validating"
                  /\ invocations' = invocations + 1
            \/ pc = "validating" /\ pc' \in {"base", "failed"}
            \/ pc = "base" /\ pc' = "layers" /\ NumLayers > 0 /\ Len(calls') = 1
            \/ pc = "base" /\ pc' = "post" /\ NumLayers = 0 /\ Len(calls') = 1
            \/ pc = "base" /\ pc' = "failed"
            \/ pc = "layers" /\ pc' = "post" /\ Len(LayerCalls') = NumLayers
            \/ pc = "layers" /\ pc' = "failed"
            \/ pc = "post" /\ pc' = "done" /\ Len(PostCalls) = Len(post_creation_tasks)
            \/ pc = "post" /\ pc' = "failed"
        /\ (pc = "layers" /\ pc' = "layers") => (i' = i + 1 /\ i < NumLayers)
        /\ (raised' # "none" \/ \E k \in 1..Len(calls') : ~calls'[k].ok) => pc' = "failed"
        /\ (pc \in {"done", "failed"} /\ invocations' = invocations) =>
                (calls' = calls /\ created_object' = created_object /\ lookups' = lookups)
        /\ (calls' # calls /\ pc # "idle" /\ invocations' = invocations) =>
                pc \in {"base", "layers", "post"}
      ]_vars

\* a first create_object call has gone through every phase and is done
C18_Witness ==
    /\ pc = "done"
    /\ invocations = 1
    /\ Len(calls) = 2
    /\ calls[1].phase = "base"
    /\ calls[2].phase = "post"

\* C19: when a create_object call starts, the list of pending post-tasks of
\* the factory holds nothing from an earlier call (a failed one included), and
\* a call that returns has executed the companion exactly once, on its canvas.
C19_NoTasksFromEarlierCalls ==
    /\ tasks0 = <<>>
    /\ pc = "validating" => post_creation_tasks = <<>>
    /\ pc = "done" => Len(PostCalls) = 1

\* C20: a layer recipe, which declares no post_execute, is built as any other:
\* its result is on the canvas, nothing is added to the pending post-tasks for
\* it, and no error is raised because post_execute is absent.
C20_RecipeWithoutCompanionBuilt ==
    /\ raised_in # "post_execute"
    /\ raised # "AttributeError"
    /\ \A k \in 1..Len(LayerCalls) :
        LayerCalls[k].ok =>
            /\ Element(LayerCalls[k].recipe, k) \in Range(created_object)
            /\ pc # "failed"

----------------------------------------------------------------------------
(* The properties of the layer of a form *)

\* the number a value of a filter form denotes
Numbers ==
    ("18" :> 18) @@ ("65" :> 65)

\* the entry of the filter form is a comparison with a number
IsComparison(filter_entry) ==
    filter_entry.operator \in Conditions /\ filter_entry.value \in DOMAIN Numbers

\* the entry of the filter form is left empty
IsBlank(filter_entry) ==
    is_empty(filter_entry.value) /\ is_empty(filter_entry.operator)

\* the form describes a valid filter on a column of the table
ValidForm ==
    /\ layer_form.data_field \in Columns(table)
    /\ IsComparison(layer_form.filter_expressions[1])
    /\ \/ IsComparison(layer_form.filter_expressions[2])
       \/ IsBlank(layer_form.filter_expressions[2])

\* the row satisfies the filter the form describes
Satisfies(row) ==
    LET e1 == layer_form.filter_expressions[1]
        e2 == layer_form.filter_expressions[2]
        s1 == Compare(row[layer_form.data_field], e1.operator, Numbers[e1.value])
    IN  IF IsBlank(e2)
        THEN s1
        ELSE LET s2 == Compare(row[layer_form.data_field], e2.operator, Numbers[e2.value])
             IN  IF layer_form.operator = "&" THEN s1 /\ s2 ELSE s1 \/ s2

\* validation of the document of the layer is over
Validated ==
    \/ form_pc \in {"validated", "prepared"}
    \/ form_pc = "failed" /\ form_raised_in \in {"validate", "filter"}

\* C11: for a valid filter (one comparison, or two joined by & or |) on a
\* column of the table, filter returns exactly the rows of the table that
\* satisfy it, in the order of the table, and never fails; the rows it returns
\* and the rows the negated predicate returns are disjoint and together are
\* the rows of the table.
C11_FilterKeepsSatisfyingRows ==
    ValidForm =>
        /\ form_raised_in # "filter"
        /\ form_pc = "prepared" =>
            LET complement ==
                    Query(table, <<"~", "(">> \o FilterStr(layer_filter) \o <<")">>)
            IN  /\ layer_data_source = SelectSeq(table.rows, Satisfies)
                /\ complement.ok
                /\ Range(layer_data_source) \cap Range(complement.rows) = {}
                /\ Range(layer_data_source) \cup Range(complement.rows) = Range(table.rows)
                /\ Len(layer_data_source) + Len(complement.rows) = Len(table.rows)

\* (age >= 18) & (age <= 65) on the ages 10, 20, 70 has kept the row of age 20
C11_Witness ==
    /\ form_pc = "prepared"
    /\ table = NumericFrame
    /\ layer_form = [data_field |-> "age", operator |-> "&",
                     filter_expressions |-> <<[value |-> "18", operator |-> ">="],
                                              [value |-> "65", operator |-> "<="]>>]
    /\ layer_data_source = <<Rows[2]>>

\* C12: the filter map_filters builds from one non-empty entry renders as
\* `field op value`; the one it builds from two non-empty entries renders as
\* `( first ) collocation ( second )`, each operand in parentheses once, the
\* first entry on the left.
C12_FilterRendersByGrammar ==
    (form_pc # "form" /\ form_raised_in # "map_filters") =>
        LET field == layer_form.data_field
            e1 == layer_form.filter_expressions[1]
            e2 == layer_form.filter_expressions[2]
            leaf1 == <<field, e1.operator, parse(e1.value).value>>
            leaf2 == <<field, e2.operator, parse(e2.value).value>>
        IN  /\ (~IsBlank(e1) /\ IsBlank(e2)) => FilterStr(layer_filter) = leaf1
            /\ (~IsBlank(e1) /\ ~IsBlank(e2)) =>
                FilterStr(layer_filter) =
                    <<"(">> \o leaf1 \o <<")", layer_form.operator, "(">> \o leaf2 \o <<")">>

\* map_filters has joined two non-empty entries
C12_Witness ==
    /\ form_pc = "mapped"
    /\ Len(expressions) = 2
    /\ expressions[1] # NoFilter
    /\ expressions[2] # NoFilter
    /\ Len(FilterStr(layer_filter)) = 11

\* C13: map_filter returns null for an entry whose value and operator are both
\* empty ("" or None) and a FilterExpression on the data field of the layer for
\* every other entry.
C13_BlankEntryMapsToNull ==
    form_pc # "form" =>
        /\ Len(expressions) = 2
        /\ \A k \in 1..Len(expressions) :
            IF IsBlank(layer_form.filter_expressions[k])
            THEN expressions[k] = NoFilter
            ELSE /\ expressions[k] # NoFilter
                 /\ expressions[k].a = <<layer_form.data_field>>

\* C14: when the filter fails (a field that is no column of the table, a
\* predicate that cannot be parsed or evaluated), it fails with ParsingError.
C14_FilterFailsWithParsingError ==
    form_raised_in = "filter" => form_raised = "ParsingError"

\* C15: MapFactory.validate raises InvalidCoordinatesError exactly when the
\* latitude or the longitude column of the table holds values that are no
\* numbers, and the error lists exactly those columns.
C15_InvalidCoordinatesListed ==
    (factory = "MapFactory" /\ Validated) =>
        LET offending == {c \in {"lat", "lon"} : table.dtypes[c] \notin {"int64", "float64"}}
        IN  /\ invalid_columns = offending
            /\ (form_raised = "InvalidCoordinatesError") <=> (offending # {})
            /\ (form_raised_in = "validate") <=> (offending # {})

\* validation of a map has failed on the longitude column alone
C15_Witness ==
    /\ factory = "MapFactory"
    /\ form_raised = "InvalidCoordinatesError"
    /\ invalid_columns = {"lon"}

----------------------------------------------------------------------------
(* The properties of the controllers, the file service and the documents *)

\* the handlers form_action chooses from
Handlers ==
    {"on_form_initialised", "on_file_uploaded", "on_layer_submitted",
     "on_layer_removed", "on_form_submitted", "on_document_disposed",
     "on_document_saved", "on_document_edited"}

IsHandler(event) ==
    event \in Handlers

\* the handlers the activation has called, in order
HandlersCalled ==
    SelectSeq(events, IsHandler)

\* the buttons in the order form_action is said to look at them
Priority ==
    <<"submit_file", "add_layer", "submit_document", "cancel", "save_document",
      "edit_document">>

\* the handler of each button
HandlerOf ==
    [submit_file |-> "on_file_uploaded", add_layer |-> "on_layer_submitted",
     submit_document |-> "on_form_submitted", cancel |-> "on_document_disposed",
     save_document |-> "on_document_saved", edit_document |-> "on_document_edited"]

\* the handler the priority order gives the request
Expected(req) ==
    IF req.is_empty THEN "on_form_initialised"
    ELSE IF req.pressed = {} THEN "on_layer_removed"
    ELSE LET first == CHOOSE k \in 1 .. Len(Priority) :
                          /\ Priority[k] \in req.pressed
                          /\ \A l \in 1 .. (k - 1) : Priority[l] \notin req.pressed
         IN  HandlerOf[Priority[first]]

\* the remove_layer button of the entry is not pressed
Unflagged(layer_entry) ==
    ~ layer_entry.remove_layer

\* the file name has no "." in it
NoExtension(name) ==
    \A k \in 1 .. Len(name) : name[k] # "."

\* C21: an exception that is no VisualiserError and is raised while activate
\* prepares the form or runs the handler never leaves activate: the user is
\* notified of the generic UnhandledError and sent to '.index'; a VisualiserError
\* is reported with its own error and solution and the user is sent to the default
\* error state of the controller.
C21_ErrorsNeverLeaveActivate ==
    /\ propagated = "none"
    /\ (ctrl_pc = "done" /\ ctrl_raised # "none") =>
           IF ctrl_raised = "InvalidCoordinatesError"
           THEN /\ notified.type = "InvalidCoordinatesError"
                /\ notified.solution = "Please check if data you provided is correct."
                /\ response = [kind |-> "redirect", state |-> "maps.edit", code |-> 302]
           ELSE /\ notified = [type |-> "UnhandledError",
                               error |-> "Unhandled error occurred", solution |-> ":("]
                /\ response = [kind |-> "redirect", state |-> ".index", code |-> 302]

\* the TypeError of the file service has been answered with the generic error
C21_Witness ==
    /\ ctrl_pc = "done"
    /\ ctrl_raised = "TypeError"
    /\ notified.type = "UnhandledError"
    /\ response.state = ".index"
    /\ propagated = "none"

\* C22: no two document instances hold the same default object: the DataSource
\* of two documents, or the latitude / longitude Axis of two layer documents, are
\* distinct objects, so a field set through one instance is not seen through
\* another.
C22_NoSharedDefaults ==
    \A k \in 1 .. Len(instances), l \in 1 .. Len(instances) :
        k # l =>
            /\ instances[k].data_source = -1
                   \/ instances[k].data_source # instances[l].data_source
            /\ instances[k].latitude = -1
                   \/ instances[k].latitude # instances[l].latitude
            /\ instances[k].longtitude = -1
                   \/ instances[k].longtitude # instances[l].longtitude

\* C23: a file whose extension is not allowed is rejected with
\* UnsupportedExtensionError, and no handler is created and no file read for it.
C23_UnsupportedExtensionRejected ==
    (/\ ctrl_pc = "done"
     /\ file_name # <<>>
     /\ __get_file_type(file_name) \notin ALLOWED_EXTENSIONS) =>
        /\ ctrl_raised = "UnsupportedExtensionError"
        /\ file_handler = "none"
        /\ frame_columns = <<>>

\* C24: after ingestion no column name that is a string holds a whitespace
\* character, and normalising the names once more changes nothing.
C24_ColumnNamesWithoutWhitespace ==
    /\ \A k \in 1 .. Len(frame_columns) :
           frame_columns[k].is_str =>
               \A c \in 1 .. Len(frame_columns[k].chars) :
                   frame_columns[k].chars[c] \notin Whitespace
    /\ fix_column_names(frame_columns) = frame_columns

\* C25: remove_layer removes exactly the entries whose remove button is pressed
\* and keeps the others in their order with their data: the layer list after
\* on_layer_removed is the list of the unflagged entries of the request.
C25_RemoveLayerKeepsUnflagged ==
    (ctrl_pc = "done" /\ HandlersCalled = <<"on_layer_removed">>) =>
        form_layers = SelectSeq(request.layers, Unflagged)

\* the middle one of three entries has been removed
C25_Witness ==
    /\ ctrl_pc = "done"
    /\ HandlersCalled = <<"on_layer_removed">>
    /\ Len(request.layers) = 3
    /\ request.layers[2].remove_layer
    /\ form_layers = <<request.layers[1], request.layers[3]>>

\* C26: an activation whose form was prepared calls exactly one handler:
\* on_form_initialised for an empty form, else the handler of the first pressed
\* button in the order submit_file, add_layer, submit_document, cancel,
\* save_document, edit_document, and on_layer_removed when no button is pressed.
C26_OneHandlerByPriority ==
    (ctrl_pc = "done" /\ session0.stored) =>
        HandlersCalled = <<Expected(request)>>

\* add_layer and submit_document are both pressed: the layer is submitted
C26_Witness ==
    /\ ctrl_pc = "done"
    /\ ~ request.is_empty
    /\ request.pressed = {"add_layer", "submit_document"}
    /\ HandlersCalled = <<"on_layer_submitted">>

\* C27: on an edit controller a submitted form is redirected (307) to the create
\* route exactly when the form is valid; an invalid form gets the edit template
\* again; no document is built in either case.
C27_EditRedirectsIffValid ==
    (/\ ctrl_pc = "done"
     /\ request.controller \in {"ChartEditController", "MapEditController"}
     /\ HandlersCalled = <<"on_form_submitted">>) =>
        /\ request.is_valid <=>
               response = [kind |-> "redirect",
                           state |-> IF request.controller = "ChartEditController"
                                     THEN "charts.create" ELSE ".create",
                           code |-> 307]
        /\ ~ request.is_valid =>
               response = [kind |-> "render", state |-> request.controller,
                           code |-> 200]
        /\ \A k \in 1 .. Len(events) :
               events[k] \notin {"map_to_document", "read_file", "generate_map"}

\* a valid form has been sent on to the create route of the charts
C27_Witness ==
    /\ ctrl_pc = "done"
    /\ request.controller = "ChartEditController"
    /\ request.is_valid
    /\ HandlersCalled = <<"on_form_submitted">>
    /\ response.state = "charts.create"
    /\ response.code = 307

\* C28: a file name without a '.' has the type 'csv' and is read by the CSV
\* handler.
C28_NoExtensionReadAsCsv ==
    (ctrl_pc = "done" /\ file_name # <<>> /\ NoExtension(file_name)) =>
        /\ __get_file_type(file_name) = <<"csv">>
        /\ file_handler = "CSV"
        /\ ctrl_raised # "TypeError"

\* C29: map_filters returns null when the first entry of the filter form is
\* empty, whatever the second is; the leaf of the first entry when the second
\* alone is empty; the composite of both when neither is.
C29_FirstEntryDecidesFilter ==
    form_pc # "form" =>
        LET e1 == layer_form.filter_expressions[1]
            e2 == layer_form.filter_expressions[2]
        IN  /\ form_raised_in # "map_filters"
            /\ IsBlank(e1) => layer_filter = NoFilter
            /\ (~ IsBlank(e1) /\ IsBlank(e2)) =>
                   /\ layer_filter.kind = "FilterExpression"
                   /\ layer_filter.a = <<layer_form.data_field>>
                   /\ layer_filter.operator = e1.operator
            /\ (~ IsBlank(e1) /\ ~ IsBlank(e2)) =>
                   /\ layer_filter.kind = "FilterExpression"
                   /\ layer_filter.operator = layer_form.operator
                   /\ Len(layer_filter.a) = 5
                   /\ Len(layer_filter.b) = 5

\* C30: every activation asks the session for the file columns first, the
\* activation for the empty form too; with no columns stored the activation ends
\* in the UnhandledError redirect to '.index' and no handler, on_form_initialised
\* included, is called.
C30_ColumnsReadBeforeAnyHandler ==
    /\ ctrl_pc \in {"form_action", "done"} =>
           /\ Len(events) >= 1
           /\ events[1] = "get_file_columns"
    /\ (ctrl_pc = "done" /\ ~ session0.stored) =>
           /\ HandlersCalled = <<>>
           /\ notified.type = "UnhandledError"
           /\ response = [kind |-> "redirect", state |-> ".index", code |-> 302]

\* the first activation of a session without columns has been sent to '.index'
C30_Witness ==
    /\ ctrl_pc = "done"
    /\ request.is_empty
    /\ ~ session0.stored
    /\ ctrl_raised = "KeyError"
    /\ response.state = ".index"

TypeOK ==
    /\ pc \in {"idle", "validating", "base", "layers", "post", "done", "failed"}
    /\ invocations \in 0..MaxInvocations
====
